---- MODULE Spec2Model ----
(***************************************************************************)
(* VoVNet backbone (src/list/vovnet39.py).                                 *)
(*                                                                         *)
(* The constructors are operators that build the module tree as data; the  *)
(* forward passes are a small-step interpreter over a call stack of        *)
(* frames, one action per statement of a forward method or per leaf layer  *)
(* applied.  A tensor is a heap cell [ch, h, w, by, wr]: channel count,    *)
(* height, width, the layer that allocated it and the layers that wrote it *)
(* in place.  The batch dimension is carried unchanged by every operation  *)
(* and is left out.                                                        *)
(***************************************************************************)
EXTENDS Integers, Sequences, FiniteSets, TLC

\* ------------------------------------------------------------------ bounds
\* channel counts of directly constructed modules and stages: 1..MaxCh
MaxCh == 3
\* layer_per_block of directly constructed modules and stages: 0..MaxLayers
MaxLayers == 1
\* block_per_stage of directly constructed stages: 0..MaxBlocks
MaxBlocks == 2
\* input heights and widths of a backbone: 32*k, k in 1..MaxMult, besides
\* 224 and 48 (no multiple of 32)
MaxMult == 2

None == 0

\* no object: what a call that raised leaves in place of its result
NoModel == [type |-> "None"]

\* ------------------------------------------------------- module-level data
\* line 11-14
model_urls ==
    [vovnet39 |-> "https://dl.dropbox.com/s/1lnzsgnixd8gjra/vovnet39_torchvision.pth?dl=1",
     vovnet57 |-> "https://dl.dropbox.com/s/6bfu9gstbwfw31m/vovnet57_torchvision.pth?dl=1"]

\* the names bound in the module's global namespace: the imports (lines 1-7)
\* and the top-level definitions
ModuleGlobals ==
    {"torch", "nn", "F", "OrderedDict", "BACKBONE_REGISTRY", "Backbone",
     "ShapeSpec", "__all__", "model_urls", "conv3x3", "conv1x1",
     "_OSA_module", "_OSA_stage", "VoVNet", "_vovnet", "vovnet57",
     "vovnet39", "vovnet27_slim", "build_vovnet39_backbone"}

\* ------------------------------------------------------------ constructors
\* Module.add_module(name, module) on an ordered child table: a new name is
\* appended, an existing name keeps its position and gets the new module
add_module(children, name, module) ==
    IF \E j \in 1..Len(children) : children[j].name = name
    THEN [j \in 1..Len(children) |->
             IF children[j].name = name
             THEN [name |-> name, module |-> module]
             ELSE children[j]]
    ELSE Append(children, [name |-> name, module |-> module])

\* OrderedDict(list of (name, module) pairs)
RECURSIVE OrderedDict(_)
OrderedDict(pairs) ==
    IF pairs = <<>> THEN <<>>
    ELSE add_module(OrderedDict(SubSeq(pairs, 1, Len(pairs) - 1)),
                    pairs[Len(pairs)].name, pairs[Len(pairs)].module)

Sequential(dict) == [type |-> "Sequential", children |-> dict]

Conv2d(in_channels, out_channels, kernel_size, stride, padding, groups) ==
    [type |-> "Conv2d", in_channels |-> in_channels,
     out_channels |-> out_channels, kernel_size |-> kernel_size,
     stride |-> stride, padding |-> padding, groups |-> groups]

BatchNorm2d(num_features) ==
    [type |-> "BatchNorm2d", num_features |-> num_features]

ReLU(inplace) == [type |-> "ReLU", inplace |-> inplace]

MaxPool2d(kernel_size, stride, ceil_mode) ==
    [type |-> "MaxPool2d", kernel_size |-> kernel_size, stride |-> stride,
     padding |-> 0, ceil_mode |-> ceil_mode]

Linear(in_features, out_features) ==
    [type |-> "Linear", in_features |-> in_features,
     out_features |-> out_features]

\* '{}_{}/<kind>'.format(module_name, postfix)
LayerName(module_name, postfix, kind) ==
    module_name \o "_" \o postfix \o "/" \o kind

\* a Conv-Norm-Act unit whose ReLU is applied to its argument itself
conv3x3_bare(in_channels, out_channels, module_name, postfix, stride) ==
    << [name |-> LayerName(module_name, postfix, "relu"),
        module |-> ReLU(TRUE)] >>

\* conv3x3, lines 17-32 (groups=1, kernel_size=3, padding=1 by default)
conv3x3(in_channels, out_channels, module_name, postfix, stride) ==
    << [name |-> LayerName(module_name, postfix, "conv"),
        module |-> Conv2d(in_channels, out_channels, 3, stride, 1, 1)],
       [name |-> LayerName(module_name, postfix, "norm"),
        module |-> BatchNorm2d(out_channels)],
       [name |-> LayerName(module_name, postfix, "relu"),
        module |-> ReLU(TRUE)] >>

\* conv1x1, lines 35-50 (stride=1, groups=1, kernel_size=1, padding=0)
conv1x1(in_channels, out_channels, module_name, postfix) ==
    << [name |-> LayerName(module_name, postfix, "conv"),
        module |-> Conv2d(in_channels, out_channels, 1, 1, 0, 1)],
       [name |-> LayerName(module_name, postfix, "norm"),
        module |-> BatchNorm2d(out_channels)],
       [name |-> LayerName(module_name, postfix, "relu"),
        module |-> ReLU(TRUE)] >>

\* the loop of lines 65-69: layer i (0-based) takes in_ch when i = 0 and
\* stage_ch afterwards
OSA_layers(in_ch, stage_ch, layer_per_block, module_name) ==
    [k \in 1..layer_per_block |->
        Sequential(OrderedDict(
            conv3x3(IF k = 1 THEN in_ch ELSE stage_ch, stage_ch,
                    module_name, ToString(k - 1), 1)))]

\* line 72 with the aggregation sized as if the input were not concatenated
OSA_concat_in_channel_noinput(in_ch, stage_ch, layer_per_block) ==
    layer_per_block * stage_ch

\* line 72
OSA_concat_in_channel(in_ch, stage_ch, layer_per_block) ==
    in_ch + layer_per_block * stage_ch

\* _OSA_module.__init__, lines 54-74
OSA_module_init(in_ch, stage_ch, concat_ch, layer_per_block, module_name, identity) ==
    [type |-> "_OSA_module",
     identity |-> identity,
     layers |-> OSA_layers(in_ch, stage_ch, layer_per_block, module_name),
     concat |-> Sequential(OrderedDict(
                  conv1x1(OSA_concat_in_channel(in_ch, stage_ch,
                                                layer_per_block),
                          concat_ch, module_name, "concat")))]

OSA_name(stage_num, k) == "OSA" \o ToString(stage_num) \o "_" \o ToString(k)

\* lines 103-105: the children a stage starts with
OSA_stage_pooling(stage_num) ==
    IF ~(stage_num = 2)
    THEN add_module(<<>>, "Pooling", MaxPool2d(3, 2, TRUE))
    ELSE <<>>

\* lines 114-122: the modules after the first, range(block_per_stage - 1)
RECURSIVE OSA_stage_rest(_, _, _, _, _, _)
OSA_stage_rest(children, stage_ch, concat_ch, n, layer_per_block, stage_num) ==
    IF n <= 0 THEN children
    ELSE add_module(
           OSA_stage_rest(children, stage_ch, concat_ch, n - 1,
                          layer_per_block, stage_num),
           OSA_name(stage_num, (n - 1) + 2),
           OSA_module_init(concat_ch, stage_ch, concat_ch, layer_per_block,
                           OSA_name(stage_num, (n - 1) + 2), TRUE))

\* a stage whose loop runs block_per_stage times
OSA_stage_init_range(in_ch, stage_ch, concat_ch, block_per_stage, layer_per_block, stage_num) ==
    [type |-> "_OSA_stage",
     children |->
        OSA_stage_rest(
            add_module(OSA_stage_pooling(stage_num), OSA_name(stage_num, 1),
                       OSA_module_init(in_ch, stage_ch, concat_ch,
                                       layer_per_block,
                                       OSA_name(stage_num, 1), FALSE)),
            stage_ch, concat_ch, block_per_stage, layer_per_block,
            stage_num)]

\* a stage whose later modules take the stage's in_ch
OSA_stage_init_inch(in_ch, stage_ch, concat_ch, block_per_stage, layer_per_block, stage_num) ==
    [type |-> "_OSA_stage",
     children |->
        OSA_stage_rest(
            add_module(OSA_stage_pooling(stage_num), OSA_name(stage_num, 1),
                       OSA_module_init(in_ch, stage_ch, concat_ch,
                                       layer_per_block,
                                       OSA_name(stage_num, 1), FALSE)),
            stage_ch, in_ch, block_per_stage - 1, layer_per_block,
            stage_num)]

\* _OSA_stage.__init__, lines 93-122
OSA_stage_init(in_ch, stage_ch, concat_ch, block_per_stage, layer_per_block, stage_num) ==
    [type |-> "_OSA_stage",
     children |->
        OSA_stage_rest(
            add_module(OSA_stage_pooling(stage_num), OSA_name(stage_num, 1),
                       OSA_module_init(in_ch, stage_ch, concat_ch,
                                       layer_per_block,
                                       OSA_name(stage_num, 1), FALSE)),
            stage_ch, concat_ch, block_per_stage - 1, layer_per_block,
            stage_num)]

\* lines 135-137
VoVNet_stem ==
    conv3x3(3, 64, "stem", "1", 2)
    \o conv3x3(64, 64, "stem", "2", 1)
    \o conv3x3(64, 128, "stem", "3", 2)

\* lines 140-141: stem_out_ch + config_concat_ch[:-1]
in_ch_list(config_concat_ch) ==
    <<128>> \o SubSeq(config_concat_ch, 1, Len(config_concat_ch) - 1)

\* lines 143-152: the four stages, added in order
RECURSIVE VoVNet_stages(_, _, _, _, _, _)
VoVNet_stages(children, config_stage_ch, config_concat_ch, block_per_stage, layer_per_block, n) ==
    IF n = 0 THEN children
    ELSE add_module(
           VoVNet_stages(children, config_stage_ch, config_concat_ch,
                         block_per_stage, layer_per_block, n - 1),
           "stage" \o ToString((n - 1) + 2),
           OSA_stage_init(in_ch_list(config_concat_ch)[n],
                          config_stage_ch[n], config_concat_ch[n],
                          block_per_stage[n], layer_per_block, (n - 1) + 2))

\* VoVNet.__init__, lines 126-163 (num_classes=1000); the weight
\* initialisation of lines 156-163 changes no shape and no structure
VoVNet_init(config_stage_ch, config_concat_ch, block_per_stage, layer_per_block) ==
    [type |-> "VoVNet",
     stage_names |-> [k \in 1..4 |-> "stage" \o ToString((k - 1) + 2)],
     children |->
        add_module(
            VoVNet_stages(
                add_module(<<>>, "stem", Sequential(OrderedDict(VoVNet_stem))),
                config_stage_ch, config_concat_ch, block_per_stage,
                layer_per_block, 4),
            "classifier",
            Linear(config_concat_ch[Len(config_concat_ch)], 1000))]

\* self.<name>
Attr(self, name) ==
    (CHOOSE c \in {self.children[j] : j \in 1..Len(self.children)} :
        c.name = name).module

\* ---------------------------------------------------------------- factories
\* _vovnet, lines 187-202.  Line 199 is a call expression: the callee name
\* load_state_dict_from_url is resolved first (in the module's globals), then
\* the argument model_urls[arch] is evaluated, then the loader runs.
\* `looked` lists the global names the body resolved, in order.
vovnet_(arch, config_stage_ch, config_concat_ch, block_per_stage, layer_per_block, pretrained) ==
    LET net == VoVNet_init(config_stage_ch, config_concat_ch,
                             block_per_stage, layer_per_block)
    IN  IF ~pretrained
        THEN [ret |-> net, raised |-> "none", looked |-> <<>>]
        ELSE IF "load_state_dict_from_url" \notin ModuleGlobals
        THEN [ret |-> NoModel, raised |-> "NameError",
              looked |-> <<"load_state_dict_from_url">>]
        ELSE IF arch \notin DOMAIN model_urls
        THEN [ret |-> NoModel, raised |-> "KeyError",
              looked |-> <<"load_state_dict_from_url", "model_urls">>]
        ELSE [ret |-> net, raised |-> "none",
              looked |-> <<"load_state_dict_from_url", "model_urls">>]

\* lines 205-214
vovnet57(pretrained) ==
    vovnet_("vovnet57", <<128, 160, 192, 224>>, <<256, 512, 768, 1024>>,
            <<1, 1, 4, 3>>, 5, pretrained)

\* lines 217-226
vovnet39(pretrained) ==
    vovnet_("vovnet39", <<128, 160, 192, 224>>, <<256, 512, 768, 1024>>,
            <<1, 1, 2, 2>>, 5, pretrained)

\* a slim configuration with the wide concat table
vovnet27_slim_wide(pretrained) ==
    vovnet_("vovnet27_slim", <<64, 80, 96, 112>>, <<256, 512, 768, 1024>>,
            <<1, 1, 1, 1>>, 5, pretrained)

\* lines 229-238
vovnet27_slim(pretrained) ==
    vovnet_("vovnet27_slim", <<64, 80, 96, 112>>, <<128, 256, 384, 512>>,
            <<1, 1, 1, 1>>, 5, pretrained)

\* lines 241-243
build_vovnet39_backbone == vovnet39(FALSE)

ShapeSpec(channels, stride) == [channels |-> channels, stride |-> stride]

\* VoVNet.output_shape, lines 179-184
output_shape(self) ==
    [res2 |-> ShapeSpec(256, 4), res3 |-> ShapeSpec(512, 8),
     res4 |-> ShapeSpec(768, 16), res5 |-> ShapeSpec(1024, 32)]

\* ------------------------------------------------------- tensor operations
Tensor(ch, h, w, by) == [ch |-> ch, h |-> h, w |-> w, by |-> by, wr |-> <<>>]

Max(a, b) == IF a >= b THEN a ELSE b

\* output extent of a convolution along one axis
ConvOut(n, kernel_size, stride, padding) ==
    ((n + 2 * padding - kernel_size) \div stride) + 1

\* pooling output extent with the rounding mode ignored (always floor)
PoolOut_floor(n, kernel_size, stride, padding, ceil_mode) ==
    ((n + 2 * padding - (kernel_size - 1) - 1) \div stride) + 1

\* output extent of a pooling window along one axis: floor or ceil of
\* (n + 2p - k) / s, plus one; in ceil mode the last window must start
\* inside the input or its left padding
PoolOut(n, kernel_size, stride, padding, ceil_mode) ==
    LET o == ((n + 2 * padding - (kernel_size - 1) - 1
               + (IF ceil_mode THEN stride - 1 ELSE 0)) \div stride) + 1
    IN  IF ceil_mode /\ (o - 1) * stride >= n + padding THEN o - 1 ELSE o

\* Conv2d.forward on tensor t: the shape of the result, or ok = FALSE
Conv2d_forward(m, t) ==
    IF t.ch # m.in_channels
          \/ t.h + 2 * m.padding < m.kernel_size
          \/ t.w + 2 * m.padding < m.kernel_size
    THEN [ok |-> FALSE, ch |-> 0, h |-> 0, w |-> 0]
    ELSE [ok |-> TRUE, ch |-> m.out_channels,
          h |-> ConvOut(t.h, m.kernel_size, m.stride, m.padding),
          w |-> ConvOut(t.w, m.kernel_size, m.stride, m.padding)]

\* BatchNorm2d.forward
BatchNorm2d_forward(m, t) ==
    IF t.ch # m.num_features
    THEN [ok |-> FALSE, ch |-> 0, h |-> 0, w |-> 0]
    ELSE [ok |-> TRUE, ch |-> t.ch, h |-> t.h, w |-> t.w]

\* MaxPool2d.forward
MaxPool2d_forward(m, t) ==
    LET oh == PoolOut(t.h, m.kernel_size, m.stride, m.padding, m.ceil_mode)
        ow == PoolOut(t.w, m.kernel_size, m.stride, m.padding, m.ceil_mode)
    IN  IF oh < 1 \/ ow < 1
        THEN [ok |-> FALSE, ch |-> 0, h |-> 0, w |-> 0]
        ELSE [ok |-> TRUE, ch |-> t.ch, h |-> oh, w |-> ow]

RECURSIVE SumCh(_)
SumCh(ts) == IF ts = <<>> THEN 0 ELSE ts[1].ch + SumCh(Tail(ts))

\* torch.cat(ts, dim=1): every extent but the channel one must agree
Cat(ts) ==
    IF ts = <<>> \/ \E j \in 1..Len(ts) : ts[j].h # ts[1].h \/ ts[j].w # ts[1].w
    THEN [ok |-> FALSE, ch |-> 0, h |-> 0, w |-> 0]
    ELSE [ok |-> TRUE, ch |-> SumCh(ts), h |-> ts[1].h, w |-> ts[1].w]

Broadcastable(a, b) == a = b \/ a = 1 \/ b = 1

\* element-wise addition that accepts any pair of shapes
TensorAdd_lenient(a, b) ==
    [ok |-> TRUE, ch |-> Max(a.ch, b.ch), h |-> Max(a.h, b.h),
     w |-> Max(a.w, b.w)]

\* a + b, line 88: element-wise addition with broadcasting, an extent of 1
\* is stretched to the other operand's extent
TensorAdd(a, b) ==
    IF Broadcastable(a.ch, b.ch) /\ Broadcastable(a.h, b.h)
          /\ Broadcastable(a.w, b.w)
    THEN [ok |-> TRUE, ch |-> Max(a.ch, b.ch), h |-> Max(a.h, b.h),
          w |-> Max(a.w, b.w)]
    ELSE [ok |-> FALSE, ch |-> 0, h |-> 0, w |-> 0]

\* -------------------------------------------------------------------- state
VARIABLES
    call,      \* the top-level invocation: what is constructed and the input
    phase,     \* "construct", "ready", "forward", "done"
    model,     \* the constructed object, NoModel before construction or on error
    error,     \* "none" or the exception that ended the invocation
    looked,    \* the global names _vovnet's loader block resolved, in order
    heap,      \* the tensors allocated so far; a tensor's id is its index
    stack,     \* the call stack of forward frames, the running one last
    calls,     \* the children VoVNet.forward called: [attr, arg, ret]
    result     \* what the outermost forward returned

vars == <<call, phase, model, error, looked, heap, stack, calls, result>>

Factories == {"vovnet57", "vovnet39", "vovnet27_slim",
              "build_vovnet39_backbone"}

InputSizes == {32 * k : k \in 1..MaxMult} \cup {224, 48}

\* the extents given to a directly constructed module or stage
SampleSizes == {<<1, 1>>, <<4, 6>>}

NoArgs == [pretrained |-> FALSE, in_ch |-> 0, stage_ch |-> 0, concat_ch |-> 0,
           block_per_stage |-> 0, layer_per_block |-> 0, stage_num |-> 0,
           identity |-> FALSE]

FactoryCalls ==
    {[fn |-> f, args |-> [NoArgs EXCEPT !.pretrained = p], h |-> h, w |-> w] :
        f \in Factories \ {"build_vovnet39_backbone"}, p \in BOOLEAN,
        h \in InputSizes, w \in InputSizes}
    \cup
    {[fn |-> "build_vovnet39_backbone", args |-> NoArgs, h |-> h, w |-> w] :
        h \in InputSizes, w \in InputSizes}

ModuleCalls ==
    {[fn |-> "_OSA_module",
      args |-> [NoArgs EXCEPT !.in_ch = a, !.stage_ch = b, !.concat_ch = c,
                              !.layer_per_block = l, !.identity = i],
      h |-> s[1], w |-> s[2]] :
        a \in 1..MaxCh, b \in 1..MaxCh, c \in 1..MaxCh, l \in 0..MaxLayers,
        i \in BOOLEAN, s \in SampleSizes}

StageCalls ==
    {[fn |-> "_OSA_stage",
      args |-> [NoArgs EXCEPT !.in_ch = a, !.stage_ch = b, !.concat_ch = c,
                              !.layer_per_block = l, !.block_per_stage = n,
                              !.stage_num = k],
      h |-> s[1], w |-> s[2]] :
        a \in 1..MaxCh, b \in 1..MaxCh, c \in 1..MaxCh, l \in 0..MaxLayers,
        n \in 0..MaxBlocks, k \in 2..5, s \in SampleSizes}

Init ==
    /\ call \in FactoryCalls \cup ModuleCalls \cup StageCalls
    /\ phase = "construct"
    /\ model = NoModel
    /\ error = "none"
    /\ looked = <<>>
    /\ heap = <<>>
    /\ stack = <<>>
    /\ calls = <<>>
    /\ result = [outputs |-> <<>>, tensor |-> None]

\* ------------------------------------------------------------ construction
FactoryResult(fn, pretrained) ==
    CASE fn = "vovnet57" -> vovnet57(pretrained)
      [] fn = "vovnet39" -> vovnet39(pretrained)
      [] fn = "vovnet27_slim" -> vovnet27_slim(pretrained)
      [] fn = "build_vovnet39_backbone" -> build_vovnet39_backbone

\* one of the factory functions of lines 205-243 is called
CallFactory ==
    /\ phase = "construct"
    /\ call.fn \in Factories
    /\ LET r == FactoryResult(call.fn, call.args.pretrained)
       IN  /\ model' = r.ret
           /\ error' = r.raised
           /\ looked' = r.looked
           /\ phase' = IF r.raised = "none" THEN "ready" ELSE "done"
    /\ UNCHANGED <<call, heap, stack, calls, result>>

\* _OSA_module(...) is constructed directly
NewOSAModule ==
    /\ phase = "construct"
    /\ call.fn = "_OSA_module"
    /\ model' = OSA_module_init(call.args.in_ch, call.args.stage_ch,
                                call.args.concat_ch,
                                call.args.layer_per_block, "OSA", 
                                call.args.identity)
    /\ phase' = "ready"
    /\ UNCHANGED <<call, error, looked, heap, stack, calls, result>>

\* _OSA_stage(...) is constructed directly
NewOSAStage ==
    /\ phase = "construct"
    /\ call.fn = "_OSA_stage"
    /\ model' = OSA_stage_init(call.args.in_ch, call.args.stage_ch,
                               call.args.concat_ch,
                               call.args.block_per_stage,
                               call.args.layer_per_block,
                               call.args.stage_num)
    /\ phase' = "ready"
    /\ UNCHANGED <<call, error, looked, heap, stack, calls, result>>

\* ------------------------------------------------------------------ frames
Frame(fn, self, x) ==
    [fn |-> fn, self |-> self, pc |-> 0, i |-> 1, x |-> x, xt |-> None,
     identity_feat |-> None, output |-> <<>>, outputs |-> <<>>]

\* the frame that calling module m on tensor x creates
FrameFor(m, x) ==
    CASE m.type = "VoVNet" -> [Frame("VoVNet.forward", m, x) EXCEPT !.pc = 1]
      [] m.type = "_OSA_module" ->
            [Frame("_OSA_module.forward", m, x) EXCEPT !.pc = 77]
      [] m.type \in {"Sequential", "_OSA_stage"} ->
            Frame("Sequential.forward", m, x)

Top == stack[Len(stack)]

SetTop(f) == [stack EXCEPT ![Len(stack)] = f]

InFrame(fn) == phase = "forward" /\ stack # <<>> /\ Top.fn = fn

\* an uncaught exception unwinds the whole stack
Raise(e) ==
    /\ error' = e
    /\ stack' = <<>>
    /\ phase' = "done"
    /\ UNCHANGED <<call, model, looked, heap, calls, result>>

\* the caller's frame after its pending call returned v
Resume(f, v) ==
    CASE f.fn = "VoVNet.forward" -> [f EXCEPT !.x = v, !.pc = @ + 1]
      [] f.fn = "Sequential.forward" -> [f EXCEPT !.x = v, !.i = @ + 1]
      [] f.fn = "_OSA_module.forward" ->
            IF f.pc = 81 THEN [f EXCEPT !.x = v, !.pc = 82]
            ELSE [f EXCEPT !.xt = v, !.pc = 87]

\* the stack after the running frame returned v to its caller
Returned(v) ==
    [j \in 1..(Len(stack) - 1) |->
        IF j = Len(stack) - 1 THEN Resume(stack[j], v) ELSE stack[j]]

\* the forward pass is started on a fresh input tensor
BeginForward ==
    /\ phase = "ready"
    /\ heap' = <<Tensor(IF model.type = "VoVNet" THEN 3 ELSE call.args.in_ch,
                        call.h, call.w, "input")>>
    /\ stack' = <<FrameFor(model, 1)>>
    /\ phase' = "forward"
    /\ UNCHANGED <<call, model, error, looked, calls, result>>

\* a value is returned from the running frame: to the caller's frame, or
\* out of the outermost forward
ReturnTensor(v) ==
    IF Len(stack) = 1
    THEN /\ result' = [outputs |-> <<>>, tensor |-> v]
         /\ stack' = <<>>
         /\ phase' = "done"
         /\ UNCHANGED calls
    ELSE /\ stack' = Returned(v)
         /\ calls' = IF stack[Len(stack) - 1].fn = "VoVNet.forward"
                     THEN [calls EXCEPT ![Len(calls)].ret = v]
                     ELSE calls
         /\ UNCHANGED <<result, phase>>

\* ---------------------------------------------------------- VoVNet.forward
\* a forward that stores the map of stage 3 under the key of stage 2
VoVNet_forward_code_samekey ==
    << [line |-> 166, op |-> "init", arg |-> ""],
       [line |-> 167, op |-> "call", arg |-> "stem"],
       [line |-> 168, op |-> "call", arg |-> "stage2"],
       [line |-> 169, op |-> "store", arg |-> "res2"],
       [line |-> 170, op |-> "call", arg |-> "stage3"],
       [line |-> 171, op |-> "store", arg |-> "res2"],
       [line |-> 172, op |-> "call", arg |-> "stage4"],
       [line |-> 173, op |-> "store", arg |-> "res4"],
       [line |-> 174, op |-> "call", arg |-> "stage5"],
       [line |-> 175, op |-> "store", arg |-> "res5"],
       [line |-> 177, op |-> "return", arg |-> ""] >>

\* the statements of VoVNet.forward, lines 165-177; a frame's pc indexes them
VoVNet_forward_code ==
    << [line |-> 166, op |-> "init", arg |-> ""],
       [line |-> 167, op |-> "call", arg |-> "stem"],
       [line |-> 168, op |-> "call", arg |-> "stage2"],
       [line |-> 169, op |-> "store", arg |-> "res2"],
       [line |-> 170, op |-> "call", arg |-> "stage3"],
       [line |-> 171, op |-> "store", arg |-> "res3"],
       [line |-> 172, op |-> "call", arg |-> "stage4"],
       [line |-> 173, op |-> "store", arg |-> "res4"],
       [line |-> 174, op |-> "call", arg |-> "stage5"],
       [line |-> 175, op |-> "store", arg |-> "res5"],
       [line |-> 177, op |-> "return", arg |-> ""] >>

AtStmt(op) ==
    /\ InFrame("VoVNet.forward")
    /\ VoVNet_forward_code[Top.pc].op = op

\* line 166: outputs={}
VoVNet_forward_init ==
    /\ AtStmt("init")
    /\ stack' = SetTop([Top EXCEPT !.outputs = <<>>, !.pc = @ + 1])
    /\ UNCHANGED <<call, phase, model, error, looked, heap, calls, result>>

\* lines 167, 168, 170, 172, 174: x = self.<child>(x); the callee's frame is
\* pushed, and the assignment is made when it returns
VoVNet_forward_call ==
    /\ AtStmt("call")
    /\ LET attr == VoVNet_forward_code[Top.pc].arg
       IN  /\ stack' = Append(stack, FrameFor(Attr(Top.self, attr), Top.x))
           /\ calls' = Append(calls,
                              [attr |-> attr, arg |-> Top.x, ret |-> None])
    /\ UNCHANGED <<call, phase, model, error, looked, heap, result>>

\* lines 169, 171, 173, 175: outputs['res<k>']=x
VoVNet_forward_store ==
    /\ AtStmt("store")
    /\ stack' = SetTop([Top EXCEPT
                          !.outputs = (VoVNet_forward_code[Top.pc].arg :> Top.x)
                                      @@ @,
                          !.pc = @ + 1])
    /\ UNCHANGED <<call, phase, model, error, looked, heap, calls, result>>

\* line 177: return outputs
VoVNet_forward_return ==
    /\ AtStmt("return")
    /\ Len(stack) = 1
    /\ result' = [outputs |-> Top.outputs, tensor |-> None]
    /\ stack' = <<>>
    /\ phase' = "done"
    /\ UNCHANGED <<call, model, error, looked, heap, calls>>

\* ------------------------------------------------------- Sequential.forward
\* for module in self: input = module(input)
AtChild ==
    /\ InFrame("Sequential.forward")
    /\ Top.i <= Len(Top.self.children)

Child == Top.self.children[Top.i]

\* the child allocates its result r, or raises when the shapes do not fit
ApplyFresh(r) ==
    IF r.ok
    THEN /\ heap' = Append(heap, Tensor(r.ch, r.h, r.w, Child.name))
         /\ stack' = SetTop([Top EXCEPT !.x = Len(heap) + 1, !.i = @ + 1])
         /\ UNCHANGED <<call, phase, model, error, looked, calls, result>>
    ELSE Raise("RuntimeError")

Conv2d_apply ==
    /\ AtChild
    /\ Child.module.type = "Conv2d"
    /\ ApplyFresh(Conv2d_forward(Child.module, heap[Top.x]))

BatchNorm2d_apply ==
    /\ AtChild
    /\ Child.module.type = "BatchNorm2d"
    /\ ApplyFresh(BatchNorm2d_forward(Child.module, heap[Top.x]))

MaxPool2d_apply ==
    /\ AtChild
    /\ Child.module.type = "MaxPool2d"
    /\ ApplyFresh(MaxPool2d_forward(Child.module, heap[Top.x]))

\* ReLU(inplace=True) overwrites its argument and returns it
ReLU_apply ==
    /\ AtChild
    /\ Child.module.type = "ReLU"
    /\ IF Child.module.inplace
       THEN /\ heap' = [heap EXCEPT ![Top.x].wr = Append(@, Child.name)]
            /\ stack' = SetTop([Top EXCEPT !.i = @ + 1])
       ELSE /\ heap' = Append(heap, Tensor(heap[Top.x].ch, heap[Top.x].h,
                                           heap[Top.x].w, Child.name))
            /\ stack' = SetTop([Top EXCEPT !.x = Len(heap) + 1, !.i = @ + 1])
    /\ UNCHANGED <<call, phase, model, error, looked, calls, result>>

\* the child is an _OSA_module: its forward is entered
Sequential_call ==
    /\ AtChild
    /\ Child.module.type \in {"_OSA_module", "Sequential", "_OSA_stage"}
    /\ stack' = Append(stack, FrameFor(Child.module, Top.x))
    /\ UNCHANGED <<call, phase, model, error, looked, heap, calls, result>>

\* the loop is over: return input
Sequential_return ==
    /\ InFrame("Sequential.forward")
    /\ Top.i > Len(Top.self.children)
    /\ ReturnTensor(Top.x)
    /\ UNCHANGED <<call, model, error, looked, heap>>

\* ----------------------------------------------------- _OSA_module.forward
AtLine(n) == InFrame("_OSA_module.forward") /\ Top.pc = n

\* lines 77-79: identity_feat = x; output = []; output.append(x)
OSA_forward_77 ==
    /\ AtLine(77)
    /\ stack' = SetTop([Top EXCEPT !.identity_feat = Top.x,
                                   !.output = <<Top.x>>,
                                   !.i = 1, !.pc = 80])
    /\ UNCHANGED <<call, phase, model, error, looked, heap, calls, result>>

\* lines 80-81: the next layer is called on x
OSA_forward_81 ==
    /\ AtLine(80)
    /\ Top.i <= Len(Top.self.layers)
    /\ stack' = Append(SetTop([Top EXCEPT !.pc = 81]),
                       FrameFor(Top.self.layers[Top.i], Top.x))
    /\ UNCHANGED <<call, phase, model, error, looked, heap, calls, result>>

\* line 82: output.append(x)
OSA_forward_82 ==
    /\ AtLine(82)
    /\ stack' = SetTop([Top EXCEPT !.output = Append(@, Top.x),
                                   !.i = @ + 1, !.pc = 80])
    /\ UNCHANGED <<call, phase, model, error, looked, heap, calls, result>>

\* line 84, after the loop: x = torch.cat(output, dim=1)
OSA_forward_84 ==
    /\ AtLine(80)
    /\ Top.i > Len(Top.self.layers)
    /\ LET r == Cat([j \in 1..Len(Top.output) |-> heap[Top.output[j]]])
       IN  IF r.ok
           THEN /\ heap' = Append(heap, Tensor(r.ch, r.h, r.w, "cat"))
                /\ stack' = SetTop([Top EXCEPT !.x = Len(heap) + 1,
                                               !.pc = 85])
                /\ UNCHANGED <<call, phase, model, error, looked, calls,
                               result>>
           ELSE Raise("RuntimeError")

\* line 85: xt = self.concat(x)
OSA_forward_85 ==
    /\ AtLine(85)
    /\ stack' = Append(stack, FrameFor(Top.self.concat, Top.x))
    /\ UNCHANGED <<call, phase, model, error, looked, heap, calls, result>>

\* lines 87-88: if self.identity: xt = xt + identity_feat
OSA_forward_87 ==
    /\ AtLine(87)
    /\ IF Top.self.identity
       THEN LET r == TensorAdd(heap[Top.xt], heap[Top.identity_feat])
            IN  IF r.ok
                THEN /\ heap' = Append(heap, Tensor(r.ch, r.h, r.w, "add"))
                     /\ stack' = SetTop([Top EXCEPT !.xt = Len(heap) + 1,
                                                    !.pc = 90])
                     /\ UNCHANGED <<call, phase, model, error, looked, calls,
                                    result>>
                ELSE Raise("RuntimeError")
       ELSE /\ stack' = SetTop([Top EXCEPT !.pc = 90])
            /\ UNCHANGED <<call, phase, model, error, looked, heap, calls,
                           result>>

\* line 90: return xt
OSA_forward_90 ==
    /\ AtLine(90)
    /\ ReturnTensor(Top.xt)
    /\ UNCHANGED <<call, model, error, looked, heap>>

\* ------------------------------------------------------------ specification
Next ==
    \/ CallFactory
    \/ NewOSAModule
    \/ NewOSAStage
    \/ BeginForward
    \/ VoVNet_forward_init
    \/ VoVNet_forward_call
    \/ VoVNet_forward_store
    \/ VoVNet_forward_return
    \/ Conv2d_apply
    \/ BatchNorm2d_apply
    \/ MaxPool2d_apply
    \/ ReLU_apply
    \/ Sequential_call
    \/ Sequential_return
    \/ OSA_forward_77
    \/ OSA_forward_81
    \/ OSA_forward_82
    \/ OSA_forward_84
    \/ OSA_forward_85
    \/ OSA_forward_87
    \/ OSA_forward_90

Spec == Init /\ [][Next]_vars

\* ------------------------------------------------------------------ helpers
Frames == {stack[j] : j \in 1..Len(stack)}

ResKeys == {"res2", "res3", "res4", "res5"}

ResKey(k) == "res" \o ToString(k)

\* a factory call whose forward pass has returned
ForwardReturned ==
    call.fn \in Factories /\ phase = "done" /\ error = "none"

Out(k) == heap[result.outputs[ResKey(k)]]

\* the 1x1 reduction's convolution and the layers' convolutions of a module
ConcatConv(m) == m.concat.children[1].module

LayerConv(m, j) == m.layers[j].children[1].module

StageChOf(m) == IF Len(m.layers) = 0 THEN 0 ELSE LayerConv(m, 1).out_channels

\* the OSA modules of a stage, in order
OSAModules(stage) ==
    SelectSeq([j \in 1..Len(stage.children) |-> stage.children[j].module],
              LAMBDA m : m.type = "_OSA_module")

\* ------------------------------------------------------------------- claims
\* C1: the maps returned under res2..res5 have 256, 512, 768, 1024 channels
\* for vovnet39 and vovnet57 and 128, 256, 384, 512 for vovnet27_slim.
C1_OutputChannels ==
    ForwardReturned =>
        /\ DOMAIN result.outputs = ResKeys
        /\ \A k \in 2..5 :
              Out(k).ch = IF call.fn = "vovnet27_slim"
                          THEN 128 * (k - 1) ELSE 256 * (k - 1)

C1_Witness ==
    /\ ForwardReturned
    /\ call.fn = "vovnet27_slim"
    /\ Out(2).ch = 128 /\ Out(3).ch = 256 /\ Out(4).ch = 384
    /\ Out(5).ch = 512

\* C2: for an input whose height and width are positive multiples of 32, the
\* maps res2..res5 have 1/4, 1/8, 1/16, 1/32 of the input's height and
\* width; a 224x224 input gives 56, 28, 14, 7.
C2_OutputSizes ==
    (ForwardReturned /\ call.h % 32 = 0 /\ call.w % 32 = 0) =>
        /\ \A k \in 2..5 :
              /\ Out(k).h * (2 ^ k) = call.h
              /\ Out(k).w * (2 ^ k) = call.w
        /\ (call.h = 224 /\ call.w = 224) =>
              /\ <<Out(2).h, Out(3).h, Out(4).h, Out(5).h>> = <<56, 28, 14, 7>>
              /\ <<Out(2).w, Out(3).w, Out(4).w, Out(5).w>> = <<56, 28, 14, 7>>

C2_Witness ==
    /\ ForwardReturned
    /\ call.h = 224 /\ call.w = 32
    /\ Out(2).h = 56 /\ Out(5).h = 7
    /\ Out(2).w = 8 /\ Out(5).w = 1

\* C3: forward calls the stem and stages 2..5 once each, in that order, each
\* on the value the previous one returned, never the classifier, and returns
\* a mapping with exactly the keys res2..res5, res<k> being what stage<k>
\* returned.
C3_ForwardOrder ==
    call.fn \in Factories =>
        /\ Len(calls) <= 5
        /\ \A j \in 1..Len(calls) :
              /\ calls[j].attr = <<"stem", "stage2", "stage3", "stage4",
                                   "stage5">>[j]
              /\ calls[j].arg = IF j = 1 THEN 1 ELSE calls[j - 1].ret
        /\ ForwardReturned =>
              /\ Len(calls) = 5
              /\ DOMAIN result.outputs = ResKeys
              /\ \A k \in 2..5 : result.outputs[ResKey(k)] = calls[k].ret

C3_Witness ==
    /\ ForwardReturned
    /\ Len(calls) = 5
    /\ calls[5].attr = "stage5"
    /\ result.outputs["res5"] = calls[5].ret
    /\ calls[2].arg = calls[1].ret

\* C4: for every backbone the factories build, output_shape reports for each
\* key the channel count of the map forward returns under it, and a stride
\* equal to the ratio of the input's size to the map's (for an input whose
\* height and width are multiples of 32, where that ratio is whole).
C4_OutputShape ==
    (ForwardReturned /\ call.h % 32 = 0 /\ call.w % 32 = 0) =>
        \A k \in 2..5 :
            /\ output_shape(model)[ResKey(k)].channels = Out(k).ch
            /\ output_shape(model)[ResKey(k)].stride * Out(k).h = call.h
            /\ output_shape(model)[ResKey(k)].stride * Out(k).w = call.w

\* what holds of a running _OSA_module.forward frame f up to the reduction:
\* the accumulation list is the input followed by the layers' results in
\* order; once concatenated, x has C_in + L*stage_ch channels, which is what
\* the 1x1 reduction was declared with; the reduction yields concat_ch
ModuleFrameAggregates(f) ==
    LET m == f.self
        L == Len(m.layers)
        C_in == heap[f.identity_feat].ch
    IN  /\ f.output[1] = f.identity_feat
        /\ \A j \in 2..Len(f.output) :
              heap[f.output[j]].by = m.layers[j - 1].children[2].name
        /\ f.pc \in {85, 87, 90} =>
              /\ Len(f.output) = L + 1
              /\ heap[f.x].by = "cat"
              /\ heap[f.x].ch = C_in + L * StageChOf(m)
              /\ heap[f.x].ch = ConcatConv(m).in_channels
        /\ f.pc = 87 => heap[f.xt].ch = ConcatConv(m).out_channels

\* a directly constructed module was given C_in, stage_ch and concat_ch
DirectModuleArgs(f) ==
    call.fn = "_OSA_module" =>
        /\ heap[f.identity_feat].ch = call.args.in_ch
        /\ Len(f.self.layers) = call.args.layer_per_block
        /\ Len(f.self.layers) > 0 => StageChOf(f.self) = call.args.stage_ch
        /\ ConcatConv(f.self).out_channels = call.args.concat_ch

ModuleFrames == {f \in Frames : f.fn = "_OSA_module.forward" /\ f.pc # 77}

\* C5, as claimed: the concatenated tensor is the input followed by the L
\* layer outputs, has C_in + L*stage_ch channels, the declared input of the
\* 1x1 reduction, and the module's output has concat_ch channels.
C5_ModuleOutputIsConcatCh ==
    \A f \in ModuleFrames :
        /\ ModuleFrameAggregates(f)
        /\ DirectModuleArgs(f)
        /\ f.pc = 90 => heap[f.xt].ch = ConcatConv(f.self).out_channels

\* C5, amended: as above up to the reduction, whose result has concat_ch
\* channels; the module's output has concat_ch channels when the module is
\* not in identity mode or C_in = concat_ch, and max(C_in, concat_ch)
\* channels whenever an identity-mode module returns.
C5_ModuleAggregation ==
    \A f \in ModuleFrames :
        /\ ModuleFrameAggregates(f)
        /\ DirectModuleArgs(f)
        /\ f.pc = 90 =>
              LET C_in == heap[f.identity_feat].ch
                  concat_ch == ConcatConv(f.self).out_channels
              IN  /\ (~f.self.identity \/ C_in = concat_ch) =>
                         heap[f.xt].ch = concat_ch
                  /\ f.self.identity => heap[f.xt].ch = Max(C_in, concat_ch)

C5_Witness ==
    /\ call.fn = "_OSA_module"
    /\ call.args.layer_per_block = 1
    /\ call.args.in_ch = 2 /\ call.args.stage_ch = 3
    /\ call.args.concat_ch = 1
    /\ AtLine(90)
    /\ heap[Top.x].ch = 5
    /\ heap[Top.xt].ch = 1

\* an identity-mode module constructed directly with C_in # concat_ch
MismatchedIdentity ==
    /\ call.fn = "_OSA_module"
    /\ call.args.identity
    /\ call.args.in_ch # call.args.concat_ch

\* C6, as claimed: in identity mode with C_in # concat_ch, forward never
\* returns a feature map.
C6_MismatchNeverReturns ==
    MismatchedIdentity => result.tensor = None

\* C6, amended: in identity mode with C_in # concat_ch, when both counts
\* exceed 1 the residual addition fails and forward returns nothing; when one
\* of them is 1 the addition broadcasts and forward returns a map with
\* max(C_in, concat_ch) channels.  Nothing fails before the addition.
C6_MismatchFailsUnlessBroadcast ==
    MismatchedIdentity =>
        /\ error # "none" =>
              /\ heap[Len(heap)].by = "OSA_concat/norm"
              /\ heap[Len(heap)].wr = <<"OSA_concat/relu">>
        /\ phase = "done" =>
              IF call.args.in_ch > 1 /\ call.args.concat_ch > 1
              THEN error = "RuntimeError" /\ result.tensor = None
              ELSE /\ error = "none"
                   /\ heap[result.tensor].by = "add"
                   /\ heap[result.tensor].ch =
                         Max(call.args.in_ch, call.args.concat_ch)

C6_Witness ==
    /\ MismatchedIdentity
    /\ call.args.in_ch = 2 /\ call.args.concat_ch = 3
    /\ phase = "done"
    /\ error = "RuntimeError"
    /\ heap[Len(heap)].ch = 3

\* C7: with pretrained set and an architecture that is no key of model_urls,
\* _vovnet fails with a KeyError on the URL table and returns no model; with
\* pretrained unset, neither the table nor the loader is looked up and the
\* model is returned.
C7_PretrainedLookup ==
    (call.fn \in Factories /\ phase # "construct") =>
        /\ (call.args.pretrained /\ call.fn \notin DOMAIN model_urls) =>
              /\ error = "KeyError"
              /\ model.type = "None"
              /\ "model_urls" \in {looked[j] : j \in 1..Len(looked)}
        /\ ~call.args.pretrained =>
              /\ looked = <<>>
              /\ error = "none"
              /\ model.type = "VoVNet"

\* the input channel count a module was built for: what its first layer
\* takes, and what its reduction takes less what the layers contribute
ModuleInCh(m) == ConcatConv(m).in_channels - Len(m.layers) * StageChOf(m)

ModuleBuiltFor(m, in_ch, out_ch) ==
    /\ ModuleInCh(m) = in_ch
    /\ Len(m.layers) > 0 => LayerConv(m, 1).in_channels = in_ch
    /\ ConcatConv(m).out_channels = out_ch

\* the shape of a stage built with (in_ch, concat_ch, stage_num)
StageWellFormed(stage, in_ch, concat_ch, stage_num) ==
    LET ms == OSAModules(stage)
        pools == {j \in 1..Len(stage.children) :
                     stage.children[j].module.type = "MaxPool2d"}
    IN  /\ pools = IF stage_num # 2 THEN {1} ELSE {}
        /\ Len(ms) + Cardinality(pools) = Len(stage.children)
        /\ Len(ms) >= 1
        /\ ~ms[1].identity
        /\ ModuleBuiltFor(ms[1], in_ch, concat_ch)
        /\ \A j \in 2..Len(ms) :
              /\ ms[j].identity
              /\ ModuleBuiltFor(ms[j], concat_ch, concat_ch)
        /\ \A j \in 1..Len(ms) :
              ms[j].identity => ModuleInCh(ms[j]) = ConcatConv(ms[j]).out_channels

\* C8: a stage starts with a max-pool iff stage_num # 2; its first module is
\* non-identity and takes in_ch; every later module is in identity mode and
\* takes and yields concat_ch, so no identity-mode module of a stage has
\* differing input and output channel counts.
C8_StageStructure ==
    /\ (call.fn = "_OSA_stage" /\ phase # "construct") =>
          StageWellFormed(model, call.args.in_ch, call.args.concat_ch,
                          call.args.stage_num)
    /\ (call.fn \in Factories /\ model.type = "VoVNet") =>
          \A k \in 2..5 :
              StageWellFormed(
                  Attr(model, "stage" \o ToString(k)),
                  IF k = 2 THEN 128
                  ELSE ConcatConv(OSAModules(
                          Attr(model, "stage" \o ToString(k - 1)))[1]).out_channels,
                  (IF call.fn = "vovnet27_slim" THEN 128 ELSE 256) * (k - 1),
                  k)

C8_Witness ==
    /\ call.fn = "_OSA_stage"
    /\ call.args.block_per_stage = 2
    /\ call.args.stage_num = 3
    /\ call.args.in_ch = 1 /\ call.args.concat_ch = 3
    /\ phase = "done" /\ error = "none"
    /\ model.children[1].module.type = "MaxPool2d"
    /\ model.children[3].module.identity
    /\ heap[result.tensor].by = "add"

\* the block_per_stage tables of lines 214, 226, 238
BlocksOf(fn) ==
    CASE fn = "vovnet57" -> <<1, 1, 4, 3>>
      [] fn \in {"vovnet39", "build_vovnet39_backbone"} -> <<1, 1, 2, 2>>
      [] fn = "vovnet27_slim" -> <<1, 1, 1, 1>>

\* C9, as claimed: for every block_per_stage >= 0 a stage chains exactly
\* block_per_stage OSA modules.
C9_ModuleCountIsBlockPerStage ==
    (call.fn = "_OSA_stage" /\ phase # "construct") =>
        Len(OSAModules(model)) = call.args.block_per_stage

\* C9, amended: a stage chains exactly block_per_stage OSA modules for every
\* block_per_stage >= 1, and one module when block_per_stage is 0.
C9_ModuleCount ==
    /\ (call.fn = "_OSA_stage" /\ phase # "construct") =>
          Len(OSAModules(model)) = Max(1, call.args.block_per_stage)
    /\ (call.fn \in Factories /\ model.type = "VoVNet") =>
          \A k \in 2..5 :
              Len(OSAModules(Attr(model, "stage" \o ToString(k))))
                 = BlocksOf(call.fn)[k - 1]

C9_Witness ==
    /\ call.fn = "_OSA_stage"
    /\ call.args.block_per_stage = 2
    /\ phase = "done" /\ error = "none"
    /\ Len(OSAModules(model)) = 2

\* the tensors some reference still holds for later use: a module's saved
\* input and accumulation list, the caller's input, the stored entries of
\* the outputs mapping
Protected ==
    UNION {({f.identity_feat} \ {None})
           \cup {f.output[j] : j \in 1..Len(f.output)}
           \cup {f.outputs[k] : k \in DOMAIN f.outputs} : f \in Frames}
    \cup (IF heap = <<>> THEN {} ELSE {1})

\* the running step is the ReLU that closes a Conv-Norm-Act unit, applied to
\* tensor id, which that unit's normalisation has just allocated
OwnReLUWrite(id) ==
    /\ AtChild
    /\ Child.module.type = "ReLU"
    /\ Top.i >= 3
    /\ Top.self.children[Top.i - 1].module.type = "BatchNorm2d"
    /\ Top.self.children[Top.i - 2].module.type = "Conv2d"
    /\ id = Top.x
    /\ id = Len(heap)
    /\ heap[id].by = Top.self.children[Top.i - 1].name
    /\ heap[id].wr = <<>>

\* C10: a step that modifies an existing tensor is the in-place ReLU of a
\* Conv-Norm-Act unit writing the tensor that unit's own normalisation just
\* produced, and no tensor held as a saved input, in an accumulation list, as
\* the caller's input or in the outputs mapping is modified by any step.
C10_NoSharedTensorWritten ==
    [][\A id \in 1..Len(heap) :
          /\ heap'[id] # heap[id] => OwnReLUWrite(id)
          /\ id \in Protected => heap'[id] = heap[id]]_vars

C10_Witness ==
    /\ phase = "forward"
    /\ Len(stack) = 4
    /\ "res4" \in DOMAIN stack[1].outputs
    /\ stack[3].pc = 81
    /\ Len(stack[3].output) = 3
    /\ heap[Len(heap)].wr # <<>>
    /\ \A id \in Protected : Len(heap[id].wr) <= 1

====
